---- MODULE Spec2Model ----
(***************************************************************************)
(* State-machine model of libdebug/cffi/ptrace_cffi_source.c: the thread   *)
(* table (t_HEAD), the software breakpoint table (b_HEAD) and the run/stop *)
(* engine (singlestep, step_until, cont_all_and_set_bps,                   *)
(* wait_all_and_update_regs), together with the part of the kernel the     *)
(* code talks to through ptrace/waitpid/tgkill: the tracee's memory, and   *)
(* for every tracee thread its run state, registers, unreaped wait status  *)
(* and pending SIGSTOP.                                                    *)
(*                                                                         *)
(* Tracee memory is byte addressed; PTRACE_PEEKDATA / PTRACE_POKEDATA move *)
(* one word of WordBytes bytes starting at the given byte address, so the  *)
(* words of two near addresses overlap.  Words are little-endian numbers   *)
(* in base ByteBase (a scaled-down 256), TrapByte is the scaled-down 0xCC. *)
(***************************************************************************)
EXTENDS Integers, Sequences, FiniteSets, TLC

VARIABLES
    mem,      \* tracee memory: byte address -> byte
    b_HEAD,   \* breakpoint list, head first: [addr, instruction, patched_instruction, enabled]
    t_HEAD,   \* thread list, head first: [tid, regs]
    kst,      \* kernel: tid -> "stop" | "run" | "step" | "dead" | "gone", "none" if no such thread
    kregs,    \* kernel: tid -> register file of the thread
    wst,      \* kernel: tid -> wait status not yet reaped by waitpid, or NoEvent
    sig,      \* kernel: tid -> a SIGSTOP is pending on the thread
    pc,       \* position of the tracer inside the current engine call, or "idle"
    op,       \* the engine call in progress: [name, tid, addr, max]
    idx,      \* position of the list cursor (struct thread *t) of the running loop
    head,     \* wait_all_and_update_regs: the event list, head first
    status,   \* cont_all_and_set_bps / step_until: int status
    count,    \* step_until: int count
    ret,      \* value returned by the engine call that just finished
    calls,    \* kernel calls issued by the engine call in progress, in order
    ctl,      \* who owns the tracee: "debugger" (all stopped) or "tracee" (resumed)
    firstWord,\* history: addr -> word at addr when register_breakpoint(addr) was first called
    edited,   \* history: tid -> ip written into the cached regs since the last stop, or NoEdit
    chron,    \* history: events of the current wait cycle in the order they were collected
    resumed,  \* history: tids the PTRACE_CONT loop of the latest cont_all_and_set_bps has resumed
    lastreg,  \* history: the latest call, if a register_breakpoint: [addr, had, prev, word]
    budget    \* history: number of calls the caller may still make

kernel  == <<mem, kst, kregs, wst, sig>>
tables  == <<b_HEAD, t_HEAD>>
frame   == <<pc, op, idx, head, status, count, ret, calls>>
history == <<firstWord, edited, chron, resumed>>
vars    == <<mem, b_HEAD, t_HEAD, kst, kregs, wst, sig, pc, op, idx, head,
             status, count, ret, calls, ctl, firstWord, edited, chron, resumed,
             lastreg, budget>>

----------------------------------------------------------------------------
(* Bounds of the model.                                                    *)

MaxCalls     == 7                   \* calls made by the caller in one behaviour of Spec
MaxWaitCalls == 7                   \* the same, in one behaviour of SpecWait
MaxFaultCalls == 4                  \* the same, in one behaviour of SpecFault
MaxStepCalls == 7                   \* the same, in one behaviour of SpecStep

Tids     == {1, 2, 3}               \* thread ids; tid 1 is the leader (pid)
MainTids == {1, 2}                  \* the threads of the tracee of Spec
Pid      == 1
BpAddrs  == {0, 1}                  \* addresses the caller puts breakpoints on
Addrs    == {0, 1, 2}               \* the tracee's code: every byte a word at BpAddrs covers
BadAddrs == {3}                     \* addresses outside the tracee's mapped memory
MaxStepsArgs == {-2, -1, 1, 2}      \* values of step_until's max_steps

----------------------------------------------------------------------------
(* Architecture adapter and kernel constants.                              *)

WordBytes == 2                      \* sizeof(uint64_t), scaled down
ByteBase  == 3                      \* the 256 values of a byte, scaled down
TrapByte  == 2                      \* 0xCC scaled down: the one-byte trap instruction

SIGSTOP_STATUS == 4991              \* WIFSTOPPED && WSTOPSIG == SIGSTOP
SIGTRAP_STATUS == 1407              \* WIFSTOPPED && WSTOPSIG == SIGTRAP
EXIT_STATUS    == 0                 \* WIFEXITED, exit code 0
NoEvent        == -1                \* no unreaped wait status
NoEdit         == NoEvent           \* no edit of the cached regs
StatusSet      == {SIGSTOP_STATUS, SIGTRAP_STATUS, EXIT_STATUS}

RECURSIVE Pow(_, _)
Pow(b, n) == IF n = 0 THEN 1 ELSE b * Pow(b, n - 1)

\* INSTALL_BREAKPOINT(instruction): (instruction & ~0xFF) | 0xCC
INSTALL_BREAKPOINT(instruction) == (instruction \div ByteBase) * ByteBase + TrapByte

\* INSTRUCTION_POINTER(regs)
INSTRUCTION_POINTER(regs) == regs.ip

\* ptrace(PTRACE_PEEKDATA, pid, addr): the word at byte address a
RECURSIVE PeekFrom(_, _, _)
PeekFrom(m, a, n) ==
    IF n = 0 THEN 0 ELSE m[a] + ByteBase * PeekFrom(m, a + 1, n - 1)
\* every byte of the word at a is mapped; PEEKDATA and POKEDATA fail otherwise
Mapped(a) == \A x \in a..(a + WordBytes - 1) : x \in Addrs
\* the -1 a failed ptrace call returns, as a uint64_t
PeekError == Pow(ByteBase, WordBytes) - 1
PEEKDATA(m, a) == IF Mapped(a) THEN PeekFrom(m, a, WordBytes) ELSE PeekError

\* ptrace(PTRACE_POKEDATA, pid, addr, data): memory after the word w is written at a
POKEDATA(m, a, w) ==
    IF ~Mapped(a) THEN m
    ELSE [x \in DOMAIN m |->
            IF x >= a /\ x < a + WordBytes
            THEN (w \div Pow(ByteBase, x - a)) % ByteBase
            ELSE m[x]]

\* the address of the instruction after the one at a (the code wraps around)
NextIp(a) == (a + 1) % Cardinality(Addrs)

----------------------------------------------------------------------------
(* List helpers (the intrusive singly linked lists of the source).         *)

Range(s) == {s[i] : i \in 1..Len(s)}
TableTids == {t_HEAD[i].tid : i \in 1..Len(t_HEAD)}
HasBp(list, a) == \E i \in 1..Len(list) : list[i].addr = a
BpAt(list, a) == list[CHOOSE i \in 1..Len(list) : list[i].addr = a]
RemoveAt(s, i) == SubSeq(s, 1, i - 1) \o SubSeq(s, i + 1, Len(s))
FirstIdx(list, a) == CHOOSE i \in 1..Len(list) : list[i].addr = a /\ \A j \in 1..(i - 1) : list[j].addr # a

Call(verb, a, b) == [verb |-> verb, a |-> a, b |-> b]
NoRec == [addr |-> -1, instruction |-> 0, patched_instruction |-> 0, enabled |-> FALSE]
NoReg == [addr |-> -1, had |-> FALSE, prev |-> NoRec, word |-> 0]
NoOp == [name |-> "none", tid |-> 0, addr |-> 0, max |-> 0]

\* contents of the tracee's code before the debugger touches it
InitMems == {[a \in Addrs |-> a % TrapByte]}

----------------------------------------------------------------------------
\* the state after attach, for a tracee with the threads in live and a caller
\* that makes at most n calls
InitWith(live, n) ==
    /\ mem \in InitMems
    /\ b_HEAD = <<>>
    /\ t_HEAD = <<>>
    /\ kst = [t \in Tids |-> IF t \in live THEN "stop" ELSE "none"]
    /\ kregs \in [Tids -> [ip : {0}]]
    /\ wst = [t \in Tids |-> NoEvent]
    /\ sig = [t \in Tids |-> FALSE]
    /\ pc = "idle"
    /\ op = NoOp
    /\ idx = 0
    /\ head = <<>>
    /\ status = 0
    /\ count = 0
    /\ ret = 0
    /\ calls = <<>>
    /\ ctl = "debugger"
    /\ firstWord = [a \in BpAddrs \cup BadAddrs |-> -1]
    /\ edited = [t \in Tids |-> NoEdit]
    /\ chron = <<>>
    /\ resumed = {}
    /\ budget = n
    /\ lastreg = NoReg

Init == InitWith(MainTids, MaxCalls)

\* a tracee of three threads
InitWait == InitWith(Tids, MaxWaitCalls)

----------------------------------------------------------------------------
(* The kernel side of the calls the code makes.                            *)

\* a ptrace request on a thread succeeds only while the thread is in ptrace-stop
InPtraceStop(t) == kst[t] = "stop"

\* the thread has a wait status that no waitpid has returned yet
Waitable(t) == wst[t] # NoEvent

\* kernel thread states after waitpid has returned the status of thread t
Reaped(t) == [kst EXCEPT ![t] = IF @ = "dead" THEN "gone" ELSE @]

\* the SETREGS loop at the start of singlestep, step_until and cont_all_and_set_bps
FlushRegs ==
    [t \in Tids |->
        IF InPtraceStop(t) /\ t \in TableTids
        THEN (t_HEAD[CHOOSE i \in 1..Len(t_HEAD) : t_HEAD[i].tid = t]).regs
        ELSE kregs[t]]

FlushCalls ==
    [i \in 1..Len(t_HEAD) |-> Call("SetRegs", t_HEAD[i].tid, INSTRUCTION_POINTER(t_HEAD[i].regs))]

\* a resumed thread runs: a pending SIGSTOP is delivered before the next
\* instruction; otherwise the instruction at ip executes, and the thread stops
\* with SIGTRAP when that instruction is the trap or the thread was single-stepped
ThreadRun(t) ==
    /\ UNCHANGED <<budget, lastreg>>
    /\ kst[t] \in {"run", "step"}
    /\ IF sig[t]
       THEN /\ sig' = [sig EXCEPT ![t] = FALSE]
            /\ wst' = [wst EXCEPT ![t] = SIGSTOP_STATUS]
            /\ kst' = [kst EXCEPT ![t] = "stop"]
            /\ UNCHANGED kregs
       ELSE /\ kregs' = [kregs EXCEPT ![t].ip = NextIp(@)]
            /\ IF mem[kregs[t].ip] = TrapByte \/ kst[t] = "step"
               THEN /\ kst' = [kst EXCEPT ![t] = "stop"]
                    /\ wst' = [wst EXCEPT ![t] = SIGTRAP_STATUS]
               ELSE UNCHANGED <<kst, wst>>
            /\ UNCHANGED sig
    /\ UNCHANGED <<mem, tables, frame, ctl, history>>

\* a running thread other than the leader exits
ThreadExit(t) ==
    /\ UNCHANGED <<budget, lastreg>>
    /\ t # Pid
    /\ kst[t] = "run"
    /\ kst' = [kst EXCEPT ![t] = "dead"]
    /\ wst' = [wst EXCEPT ![t] = EXIT_STATUS]
    /\ UNCHANGED <<mem, kregs, sig, tables, frame, ctl, history>>

----------------------------------------------------------------------------
(* Thread table.                                                           *)

\* the tracee has, or had, a thread with this id
Exists(t) == kst[t] # "none"

Idle == pc = "idle"
Stopped == Idle /\ ctl = "debugger"

\* the caller makes one more call
Spend == budget > 0 /\ budget' = budget - 1
Called == Spend /\ lastreg' = NoReg

register_thread(tid) ==
    /\ Called
    /\ Stopped
    /\ Exists(tid)
    /\ IF tid \in TableTids
       THEN UNCHANGED t_HEAD
       ELSE \E junk \in Addrs :
              \* GETREGS fills the record only when the thread is in ptrace-stop
              LET regs == IF InPtraceStop(tid) THEN kregs[tid] ELSE [ip |-> junk]
              IN  t_HEAD' = <<[tid |-> tid, regs |-> regs]>> \o t_HEAD
    /\ UNCHANGED <<b_HEAD, kernel, frame, ctl, history>>

unregister_thread(tid) ==
    /\ Called
    /\ Stopped
    /\ Exists(tid)
    /\ IF tid \in TableTids
       THEN t_HEAD' = RemoveAt(t_HEAD, CHOOSE i \in 1..Len(t_HEAD) : t_HEAD[i].tid = tid)
       ELSE UNCHANGED t_HEAD
    /\ edited' = [edited EXCEPT ![tid] = NoEdit]
    /\ UNCHANGED <<b_HEAD, kernel, frame, ctl, firstWord, chron, resumed>>

\* the caller writes the instruction pointer through the pointer register_thread returned
EditRegs(tid, ip) ==
    /\ Called
    /\ Stopped
    /\ tid \in TableTids
    /\ t_HEAD' = [i \in 1..Len(t_HEAD) |->
                    IF t_HEAD[i].tid = tid
                    THEN [t_HEAD[i] EXCEPT !.regs.ip = ip]
                    ELSE t_HEAD[i]]
    /\ edited' = [edited EXCEPT ![tid] = ip]
    /\ UNCHANGED <<b_HEAD, kernel, frame, ctl, firstWord, chron, resumed>>

----------------------------------------------------------------------------
(* Breakpoint table.                                                       *)

\* variant of register_breakpoint without the search for an existing record:
\* every call prepends a record holding the word it has just read
register_breakpoint_no_lookup(address) ==
    /\ Spend
    /\ lastreg' = [addr |-> address,
                   had  |-> HasBp(b_HEAD, address),
                   prev |-> IF HasBp(b_HEAD, address)
                            THEN b_HEAD[FirstIdx(b_HEAD, address)]
                            ELSE NoRec,
                   word |-> PEEKDATA(mem, address)]
    /\ Stopped
    /\ LET instruction == PEEKDATA(mem, address)
           patched_instruction == INSTALL_BREAKPOINT(instruction)
       IN  /\ mem' = POKEDATA(mem, address, patched_instruction)
           /\ b_HEAD' = <<[addr |-> address,
                           instruction |-> instruction,
                           patched_instruction |-> patched_instruction,
                           enabled |-> TRUE]>> \o b_HEAD
           /\ firstWord' = IF firstWord[address] = -1
                           THEN [firstWord EXCEPT ![address] = instruction]
                           ELSE firstWord
    /\ UNCHANGED <<t_HEAD, kst, kregs, wst, sig, frame, ctl, edited, chron, resumed>>

register_breakpoint(address) ==
    /\ Spend
    /\ lastreg' = [addr |-> address,
                   had  |-> HasBp(b_HEAD, address),
                   prev |-> IF HasBp(b_HEAD, address)
                            THEN b_HEAD[FirstIdx(b_HEAD, address)]
                            ELSE NoRec,
                   word |-> PEEKDATA(mem, address)]
    /\ Stopped
    /\ LET instruction == PEEKDATA(mem, address)
           patched_instruction == INSTALL_BREAKPOINT(instruction)
       IN  /\ mem' = POKEDATA(mem, address, patched_instruction)
           /\ IF HasBp(b_HEAD, address)
              THEN b_HEAD' = [i \in 1..Len(b_HEAD) |->
                                IF i = FirstIdx(b_HEAD, address)
                                THEN [b_HEAD[i] EXCEPT !.enabled = TRUE]
                                ELSE b_HEAD[i]]
              ELSE b_HEAD' = <<[addr |-> address,
                                instruction |-> instruction,
                                patched_instruction |-> patched_instruction,
                                enabled |-> TRUE]>> \o b_HEAD
           /\ firstWord' = IF firstWord[address] = -1
                           THEN [firstWord EXCEPT ![address] = instruction]
                           ELSE firstWord
    /\ UNCHANGED <<t_HEAD, kst, kregs, wst, sig, frame, ctl, edited, chron, resumed>>

unregister_breakpoint(address) ==
    /\ Called
    /\ Stopped
    /\ IF HasBp(b_HEAD, address)
       THEN b_HEAD' = RemoveAt(b_HEAD, FirstIdx(b_HEAD, address))
       ELSE UNCHANGED b_HEAD
    /\ UNCHANGED <<t_HEAD, kernel, frame, ctl, history>>

disable_breakpoint(address) ==
    /\ Called
    /\ Stopped
    /\ IF HasBp(b_HEAD, address)
       THEN LET i == FirstIdx(b_HEAD, address)
            IN  /\ b_HEAD' = [b_HEAD EXCEPT ![i].enabled = FALSE]
                /\ mem' = POKEDATA(mem, b_HEAD[i].addr, b_HEAD[i].patched_instruction)
       ELSE UNCHANGED <<b_HEAD, mem>>
    /\ UNCHANGED <<t_HEAD, kst, kregs, wst, sig, frame, ctl, history>>

\* the "Reset any software breakpoint" loop of cont_all_and_set_bps, from record i on
RECURSIVE ArmFrom(_, _, _)
ArmFrom(m, list, i) ==
    IF i > Len(list) THEN m
    ELSE ArmFrom(IF list[i].enabled
                 THEN POKEDATA(m, list[i].addr, list[i].patched_instruction)
                 ELSE m, list, i + 1)

\* the "Restore any software breakpoint" loop of wait_all_and_update_regs
RECURSIVE DisarmFrom(_, _, _)
DisarmFrom(m, list, i) ==
    IF i > Len(list) THEN m
    ELSE DisarmFrom(IF list[i].enabled
                    THEN POKEDATA(m, list[i].addr, list[i].instruction)
                    ELSE m, list, i + 1)

PokeCalls(list, patched) ==
    LET en == SelectSeq(list, LAMBDA b : b.enabled)
    IN  [i \in 1..Len(en) |->
            Call("PokeData", en[i].addr,
                 IF patched THEN en[i].patched_instruction ELSE en[i].instruction)]

----------------------------------------------------------------------------
(* Run/stop engine.  Every engine call ends at pc = "ret" with its return  *)
(* value in ret; Return hands control back to the caller.                  *)

Cursor == t_HEAD[idx]

\* variant of singlestep without the SETREGS loop
singlestep_no_flush(tid) ==
    /\ Called
    /\ Stopped
    /\ Exists(tid)
    /\ op' = [NoOp EXCEPT !.name = "singlestep", !.tid = tid]
    /\ calls' = <<Call("SingleStep", tid, 0)>>
    /\ IF InPtraceStop(tid)
       THEN /\ kst' = [kst EXCEPT ![tid] = "step"]
            /\ wst' = [wst EXCEPT ![tid] = NoEvent]
            /\ ret' = 0
            /\ ctl' = "tracee"
       ELSE /\ ret' = -1
            /\ UNCHANGED <<kst, wst, ctl>>
    /\ pc' = "ret"
    /\ UNCHANGED <<mem, kregs, sig, tables, idx, head, status, count, firstWord, edited, chron, resumed>>

\* int singlestep(int tid)
singlestep(tid) ==
    /\ Called
    /\ Stopped
    /\ Exists(tid)
    /\ op' = [NoOp EXCEPT !.name = "singlestep", !.tid = tid]
    /\ calls' = FlushCalls \o <<Call("SingleStep", tid, 0)>>
    /\ kregs' = FlushRegs
    /\ IF InPtraceStop(tid)
       THEN /\ kst' = [kst EXCEPT ![tid] = "step"]
            /\ wst' = [wst EXCEPT ![tid] = NoEvent]
            /\ ret' = 0
            /\ ctl' = "tracee"
       ELSE /\ ret' = -1
            /\ UNCHANGED <<kst, wst, ctl>>
    /\ pc' = "ret"
    /\ UNCHANGED <<mem, sig, tables, idx, head, status, count, firstWord, edited, chron, resumed>>

\* variant of cont_flush that also runs the arm loop, ahead of the step-off loop
cont_flush_and_arm ==
    /\ Called
    /\ Stopped
    /\ op' = [NoOp EXCEPT !.name = "cont_all_and_set_bps"]
    /\ kregs' = FlushRegs
    /\ calls' = FlushCalls \o PokeCalls(b_HEAD, TRUE)
    /\ mem' = ArmFrom(mem, b_HEAD, 1)
    /\ status' = 0
    /\ idx' = 1
    /\ pc' = "c_hit"
    /\ UNCHANGED <<kst, wst, sig, tables, head, count, ret, ctl, firstWord, edited, chron, resumed>>

\* int cont_all_and_set_bps(int pid): the SETREGS loop
cont_flush ==
    /\ Called
    /\ Stopped
    /\ op' = [NoOp EXCEPT !.name = "cont_all_and_set_bps"]
    /\ kregs' = FlushRegs
    /\ calls' = FlushCalls
    /\ status' = 0
    /\ idx' = 1
    /\ pc' = "c_hit"
    /\ UNCHANGED <<mem, kst, wst, sig, tables, head, count, ret, ctl, firstWord, edited, chron, resumed>>

\* the thread under the cursor has its cached ip on a breakpoint record
t_hit(t) == \E i \in 1..Len(b_HEAD) : b_HEAD[i].addr = INSTRUCTION_POINTER(t.regs)

\* one turn of the "has hit a software breakpoint" loop, up to the first SINGLESTEP
cont_step_off ==
    /\ UNCHANGED <<budget, lastreg>>
    /\ pc = "c_hit"
    /\ IF idx > Len(t_HEAD)
       THEN /\ pc' = "c_arm"
            /\ UNCHANGED <<idx, kst, wst, ret, calls>>
       ELSE IF ~t_hit(Cursor)
       THEN /\ idx' = idx + 1
            /\ UNCHANGED <<pc, kst, wst, ret, calls>>
       ELSE /\ calls' = Append(calls, Call("SingleStep", Cursor.tid, 0))
            /\ IF InPtraceStop(Cursor.tid)
               THEN /\ kst' = [kst EXCEPT ![Cursor.tid] = "step"]
                    /\ wst' = [wst EXCEPT ![Cursor.tid] = NoEvent]
                    /\ pc' = "c_wait"
                    /\ UNCHANGED <<idx, ret>>
               ELSE /\ ret' = -1
                    /\ pc' = "ret"
                    /\ UNCHANGED <<idx, kst, wst>>
    /\ UNCHANGED <<mem, kregs, sig, tables, op, head, status, count, ctl, history>>

\* variant of cont_wait without the test of status against 4991
cont_wait_no_restep ==
    /\ UNCHANGED <<budget, lastreg>>
    /\ pc = "c_wait"
    /\ Waitable(Cursor.tid)
    /\ status' = wst[Cursor.tid]
    /\ calls' = Append(calls, Call("WaitPid", Cursor.tid, wst[Cursor.tid]))
    /\ kst' = Reaped(Cursor.tid)
    /\ wst' = [wst EXCEPT ![Cursor.tid] = NoEvent]
    /\ idx' = idx + 1
    /\ pc' = "c_hit"
    /\ UNCHANGED <<mem, kregs, sig, tables, op, head, count, ret, ctl, history>>

\* variant of cont_wait that does not wait for the second SINGLESTEP
cont_wait_no_second_wait ==
    /\ UNCHANGED <<budget, lastreg>>
    /\ pc = "c_wait"
    /\ Waitable(Cursor.tid)
    /\ status' = wst[Cursor.tid]
    /\ IF wst[Cursor.tid] = SIGSTOP_STATUS
       THEN /\ calls' = calls \o <<Call("WaitPid", Cursor.tid, wst[Cursor.tid]),
                                   Call("SingleStep", Cursor.tid, 0)>>
            /\ kst' = [kst EXCEPT ![Cursor.tid] = IF @ = "stop" THEN "step" ELSE @]
            /\ wst' = [wst EXCEPT ![Cursor.tid] = NoEvent]
            /\ idx' = idx + 1
            /\ pc' = "c_hit"
       ELSE /\ calls' = Append(calls, Call("WaitPid", Cursor.tid, wst[Cursor.tid]))
            /\ kst' = Reaped(Cursor.tid)
            /\ wst' = [wst EXCEPT ![Cursor.tid] = NoEvent]
            /\ idx' = idx + 1
            /\ pc' = "c_hit"
    /\ UNCHANGED <<mem, kregs, sig, tables, op, head, count, ret, ctl, history>>

\* waitpid(t->tid, &status, 0) after the step, and the second SINGLESTEP on status 4991
cont_wait ==
    /\ UNCHANGED <<budget, lastreg>>
    /\ pc = "c_wait"
    /\ Waitable(Cursor.tid)
    /\ status' = wst[Cursor.tid]
    /\ IF wst[Cursor.tid] = SIGSTOP_STATUS
       THEN /\ calls' = calls \o <<Call("WaitPid", Cursor.tid, wst[Cursor.tid]),
                                   Call("SingleStep", Cursor.tid, 0)>>
            /\ kst' = [kst EXCEPT ![Cursor.tid] = IF @ = "stop" THEN "step" ELSE @]
            /\ wst' = [wst EXCEPT ![Cursor.tid] = NoEvent]
            /\ pc' = "c_wait2"
            /\ UNCHANGED idx
       ELSE /\ calls' = Append(calls, Call("WaitPid", Cursor.tid, wst[Cursor.tid]))
            /\ kst' = Reaped(Cursor.tid)
            /\ wst' = [wst EXCEPT ![Cursor.tid] = NoEvent]
            /\ idx' = idx + 1
            /\ pc' = "c_hit"
    /\ UNCHANGED <<mem, kregs, sig, tables, op, head, count, ret, ctl, history>>

\* waitpid(t->tid, &status, 0) after the second SINGLESTEP
cont_wait2 ==
    /\ UNCHANGED <<budget, lastreg>>
    /\ pc = "c_wait2"
    /\ Waitable(Cursor.tid)
    /\ status' = wst[Cursor.tid]
    /\ calls' = Append(calls, Call("WaitPid", Cursor.tid, wst[Cursor.tid]))
    /\ kst' = Reaped(Cursor.tid)
    /\ wst' = [wst EXCEPT ![Cursor.tid] = NoEvent]
    /\ idx' = idx + 1
    /\ pc' = "c_hit"
    /\ UNCHANGED <<mem, kregs, sig, tables, op, head, count, ret, ctl, history>>

\* the "Reset any software breakpoint" loop
cont_arm ==
    /\ UNCHANGED <<budget, lastreg>>
    /\ pc = "c_arm"
    /\ mem' = ArmFrom(mem, b_HEAD, 1)
    /\ calls' = calls \o PokeCalls(b_HEAD, TRUE)
    /\ idx' = 1
    /\ pc' = "c_cont"
    /\ UNCHANGED <<kst, kregs, wst, sig, tables, op, head, status, count, ret, ctl, history>>

\* one turn of the PTRACE_CONT loop, and the return of status after the last
cont_continue ==
    /\ UNCHANGED <<budget, lastreg>>
    /\ pc = "c_cont"
    /\ IF idx > Len(t_HEAD)
       THEN /\ ret' = status
            /\ ctl' = "tracee"
            /\ pc' = "ret"
            /\ UNCHANGED <<idx, kst, wst, calls, resumed>>
       ELSE /\ calls' = Append(calls, Call("Continue", Cursor.tid, 0))
            /\ IF InPtraceStop(Cursor.tid)
               THEN /\ kst' = [kst EXCEPT ![Cursor.tid] = "run"]
                    /\ wst' = [wst EXCEPT ![Cursor.tid] = NoEvent]
                    /\ resumed' = resumed \cup {Cursor.tid}
               ELSE UNCHANGED <<kst, wst, resumed>>
            /\ idx' = idx + 1
            /\ UNCHANGED <<pc, ret, ctl>>
    /\ UNCHANGED <<mem, kregs, sig, tables, op, head, status, count, firstWord, edited, chron>>

\* control goes back to the caller; the frame of the call is gone
Return ==
    /\ UNCHANGED <<budget, lastreg>>
    /\ pc = "ret"
    /\ pc' = "idle"
    /\ op' = NoOp
    /\ idx' = 0
    /\ head' = <<>>
    /\ status' = 0
    /\ count' = 0
    /\ ret' = 0
    /\ calls' = <<>>
    /\ edited' = [t \in Tids |-> NoEdit]
    /\ chron' = <<>>
    /\ resumed' = IF op.name = "cont_all_and_set_bps" THEN resumed ELSE {}
    /\ UNCHANGED <<kernel, tables, ctl, firstWord>>

----------------------------------------------------------------------------
(* int step_until(int tid, uint64_t addr, int max_steps)                   *)

\* the SETREGS loop, which also looks tid up in the thread list
step_until_flush(tid, addr, max_steps) ==
    /\ Called
    /\ Stopped
    /\ Exists(tid)
    /\ op' = [name |-> "step_until", tid |-> tid, addr |-> addr, max |-> max_steps]
    /\ kregs' = FlushRegs
    /\ calls' = FlushCalls
    /\ count' = 0
    /\ status' = 0
    /\ IF tid \in TableTids
       THEN /\ idx' = CHOOSE i \in 1..Len(t_HEAD) : t_HEAD[i].tid = tid
            /\ pc' = "s_loop"
            /\ UNCHANGED ret
       ELSE /\ ret' = -1
            /\ pc' = "ret"
            /\ UNCHANGED idx
    /\ UNCHANGED <<mem, kst, wst, sig, tables, head, ctl, firstWord, edited, chron, resumed>>

\* the loop condition and the SINGLESTEP of one turn
step_until_step ==
    /\ UNCHANGED <<budget, lastreg>>
    /\ pc = "s_loop"
    /\ IF op.max = -1 \/ count < op.max
       THEN /\ calls' = Append(calls, Call("SingleStep", op.tid, 0))
            /\ IF InPtraceStop(op.tid)
               THEN /\ kst' = [kst EXCEPT ![op.tid] = "step"]
                    /\ wst' = [wst EXCEPT ![op.tid] = NoEvent]
                    /\ pc' = "s_wait"
                    /\ UNCHANGED ret
               ELSE /\ ret' = -1
                    /\ pc' = "ret"
                    /\ UNCHANGED <<kst, wst>>
       ELSE /\ ret' = 0
            /\ pc' = "ret"
            /\ UNCHANGED <<kst, wst, calls>>
    /\ UNCHANGED <<mem, kregs, sig, tables, op, idx, head, status, count, ctl, history>>

\* variant of step_until_wait that waits again, without a new SINGLESTEP, when
\* the instruction pointer has not changed
step_until_wait_no_restep ==
    /\ UNCHANGED <<budget, lastreg>>
    /\ pc = "s_wait"
    /\ Waitable(op.tid)
    /\ status' = wst[op.tid]
    /\ wst' = [wst EXCEPT ![op.tid] = NoEvent]
    /\ kst' = Reaped(op.tid)
    /\ LET previous_ip == INSTRUCTION_POINTER(Cursor.regs)
           regs == IF InPtraceStop(op.tid) THEN kregs[op.tid] ELSE Cursor.regs
       IN  /\ t_HEAD' = [t_HEAD EXCEPT ![idx].regs = regs]
           /\ calls' = calls \o <<Call("WaitPid", op.tid, wst[op.tid]),
                                   Call("GetRegs", op.tid, INSTRUCTION_POINTER(regs))>>
           /\ IF INSTRUCTION_POINTER(regs) = op.addr
              THEN /\ ret' = 0
                   /\ pc' = "ret"
                   /\ UNCHANGED count
              ELSE IF INSTRUCTION_POINTER(regs) = previous_ip
              THEN /\ pc' = "s_wait"
                   /\ UNCHANGED <<count, ret>>
              ELSE /\ count' = count + 1
                   /\ pc' = "s_loop"
                   /\ UNCHANGED ret
    /\ UNCHANGED <<mem, kregs, sig, b_HEAD, op, idx, head, ctl, history>>

\* variant of step_until_wait without the test against previous_ip
step_until_wait_count_all ==
    /\ UNCHANGED <<budget, lastreg>>
    /\ pc = "s_wait"
    /\ Waitable(op.tid)
    /\ status' = wst[op.tid]
    /\ wst' = [wst EXCEPT ![op.tid] = NoEvent]
    /\ kst' = Reaped(op.tid)
    /\ LET previous_ip == INSTRUCTION_POINTER(Cursor.regs)
           regs == IF InPtraceStop(op.tid) THEN kregs[op.tid] ELSE Cursor.regs
       IN  /\ t_HEAD' = [t_HEAD EXCEPT ![idx].regs = regs]
           /\ calls' = calls \o <<Call("WaitPid", op.tid, wst[op.tid]),
                                   Call("GetRegs", op.tid, INSTRUCTION_POINTER(regs))>>
           /\ IF INSTRUCTION_POINTER(regs) = op.addr
              THEN /\ ret' = 0
                   /\ pc' = "ret"
                   /\ UNCHANGED count
              ELSE /\ count' = count + 1
                   /\ pc' = "s_loop"
                   /\ UNCHANGED ret
    /\ UNCHANGED <<mem, kregs, sig, b_HEAD, op, idx, head, ctl, history>>

\* waitpid, GETREGS and the two tests on the instruction pointer
step_until_wait ==
    /\ UNCHANGED <<budget, lastreg>>
    /\ pc = "s_wait"
    /\ Waitable(op.tid)
    /\ status' = wst[op.tid]
    /\ wst' = [wst EXCEPT ![op.tid] = NoEvent]
    /\ kst' = Reaped(op.tid)
    /\ LET previous_ip == INSTRUCTION_POINTER(Cursor.regs)
           regs == IF InPtraceStop(op.tid) THEN kregs[op.tid] ELSE Cursor.regs
       IN  /\ t_HEAD' = [t_HEAD EXCEPT ![idx].regs = regs]
           /\ calls' = calls \o <<Call("WaitPid", op.tid, wst[op.tid]),
                                   Call("GetRegs", op.tid, INSTRUCTION_POINTER(regs))>>
           /\ IF INSTRUCTION_POINTER(regs) = op.addr
              THEN /\ ret' = 0
                   /\ pc' = "ret"
                   /\ UNCHANGED count
              ELSE IF INSTRUCTION_POINTER(regs) = previous_ip
              THEN /\ pc' = "s_loop"
                   /\ UNCHANGED <<count, ret>>
              ELSE /\ count' = count + 1
                   /\ pc' = "s_loop"
                   /\ UNCHANGED ret
    /\ UNCHANGED <<mem, kregs, sig, b_HEAD, op, idx, head, ctl, history>>

----------------------------------------------------------------------------
(* struct thread_status *wait_all_and_update_regs(int pid)                 *)

Event(tid, st) == [tid |-> tid, status |-> st]

\* head->tid = waitpid(-1, &head->status, __WALL), and the NULL return when it fails
wait_primary ==
    /\ Called
    /\ Idle
    /\ ctl = "tracee"
    /\ op' = [NoOp EXCEPT !.name = "wait_all_and_update_regs"]
    /\ \/ \E t \in Tids :
            /\ Waitable(t)
            /\ head' = <<Event(t, wst[t])>>
            /\ chron' = <<[ev |-> Event(t, wst[t]), grp |-> 1]>>
            /\ calls' = <<Call("WaitPid", t, wst[t])>>
            /\ wst' = [wst EXCEPT ![t] = NoEvent]
            /\ kst' = Reaped(t)
            /\ idx' = 1
            /\ pc' = "w_probe"
            /\ UNCHANGED ret
       \/ /\ head' = <<>>
          /\ calls' = <<Call("WaitPid", -1, 0)>>
          /\ ret' = 0
          /\ pc' = "ret"
          /\ UNCHANGED <<wst, kst, idx, chron>>
    /\ UNCHANGED <<mem, kregs, sig, tables, status, count, ctl, firstWord, edited, resumed>>

\* one turn of the "interrupt all the other threads" loop, up to the GETREGS probe
wait_probe ==
    /\ UNCHANGED <<budget, lastreg>>
    /\ pc = "w_probe"
    /\ IF idx > Len(t_HEAD)
       THEN /\ pc' = "w_drain"
            /\ UNCHANGED <<idx, t_HEAD, calls>>
       ELSE IF Cursor.tid = head[1].tid
       THEN /\ idx' = idx + 1
            /\ UNCHANGED <<pc, t_HEAD, calls>>
       ELSE /\ calls' = Append(calls, Call("GetRegs", Cursor.tid, 0))
            /\ IF InPtraceStop(Cursor.tid)
               THEN /\ t_HEAD' = [t_HEAD EXCEPT ![idx].regs = kregs[Cursor.tid]]
                    /\ idx' = idx + 1
                    /\ UNCHANGED pc
               ELSE /\ pc' = "w_kill"
                    /\ UNCHANGED <<idx, t_HEAD>>
    /\ UNCHANGED <<kernel, b_HEAD, op, head, status, count, ret, ctl, history>>

\* variant of wait_tgkill that goes on to the next thread without the waitpid
wait_tgkill_no_wait ==
    /\ UNCHANGED <<budget, lastreg>>
    /\ pc = "w_kill"
    /\ sig' = [sig EXCEPT ![Cursor.tid] = IF kst[Cursor.tid] \in {"run", "step", "stop"}
                                          THEN TRUE ELSE @]
    /\ calls' = Append(calls, Call("TgKill", Cursor.tid, 0))
    /\ idx' = idx + 1
    /\ pc' = "w_probe"
    /\ UNCHANGED <<mem, kst, kregs, wst, tables, op, head, status, count, ret, ctl, history>>

\* tgkill(pid, t->tid, SIGSTOP)
wait_tgkill ==
    /\ UNCHANGED <<budget, lastreg>>
    /\ pc = "w_kill"
    /\ sig' = [sig EXCEPT ![Cursor.tid] = IF kst[Cursor.tid] \in {"run", "step", "stop"}
                                          THEN TRUE ELSE @]
    /\ calls' = Append(calls, Call("TgKill", Cursor.tid, 0))
    /\ pc' = "w_wait"
    /\ UNCHANGED <<mem, kst, kregs, wst, tables, op, idx, head, status, count, ret, ctl, history>>

\* variant of Prepend that links the new entry after the last one
Prepend_at_tail(list, ev) == list \o <<ev>>

\* a collected event becomes the new head of the list
Prepend(list, ev) == <<ev>> \o list

\* variant of wait_stopped that frees the new entry instead of linking it
wait_stopped_drop ==
    /\ UNCHANGED <<budget, lastreg>>
    /\ pc = "w_wait"
    /\ \/ /\ Waitable(Cursor.tid)
          /\ calls' = Append(calls, Call("WaitPid", Cursor.tid, wst[Cursor.tid]))
          /\ wst' = [wst EXCEPT ![Cursor.tid] = NoEvent]
          /\ kst' = Reaped(Cursor.tid)
       \/ /\ kst[Cursor.tid] = "gone"
          /\ calls' = Append(calls, Call("WaitPid", -1, 0))
          /\ UNCHANGED <<wst, kst>>
    /\ idx' = idx + 1
    /\ pc' = "w_probe"
    /\ UNCHANGED <<mem, kregs, sig, tables, op, head, status, count, ret, ctl, history>>

\* temp_tid = waitpid(t->tid, &temp_status, NULL) and the new list entry
wait_stopped ==
    /\ UNCHANGED <<budget, lastreg>>
    /\ pc = "w_wait"
    /\ \/ /\ Waitable(Cursor.tid)
          /\ LET ev == Event(Cursor.tid, wst[Cursor.tid])
             IN  /\ head' = Prepend(head, ev)
                 /\ chron' = Append(chron, [ev |-> ev, grp |-> 2])
                 /\ calls' = Append(calls, Call("WaitPid", ev.tid, ev.status))
          /\ wst' = [wst EXCEPT ![Cursor.tid] = NoEvent]
          /\ kst' = Reaped(Cursor.tid)
       \/ /\ kst[Cursor.tid] = "gone"
          \* waitpid fails and temp_status keeps whatever it held
          /\ \E junk \in StatusSet :
                LET ev == Event(-1, junk)
                IN  /\ head' = Prepend(head, ev)
                    /\ chron' = Append(chron, [ev |-> ev, grp |-> 2])
                    /\ calls' = Append(calls, Call("WaitPid", -1, 0))
          /\ UNCHANGED <<wst, kst>>
    /\ idx' = idx + 1
    /\ pc' = "w_probe"
    /\ UNCHANGED <<mem, kregs, sig, tables, op, status, count, ret, ctl, firstWord, edited, resumed>>

\* one turn of the waitpid(-1, WNOHANG | __WALL) loop
wait_drain ==
    /\ UNCHANGED <<budget, lastreg>>
    /\ pc = "w_drain"
    /\ IF \E t \in Tids : Waitable(t)
       THEN \E t \in Tids :
            /\ Waitable(t)
            /\ LET ev == Event(t, wst[t])
               IN  /\ head' = Prepend(head, ev)
                   /\ chron' = Append(chron, [ev |-> ev, grp |-> 3])
                   /\ calls' = Append(calls, Call("WaitPid", ev.tid, ev.status))
            /\ wst' = [wst EXCEPT ![t] = NoEvent]
            /\ kst' = Reaped(t)
            /\ UNCHANGED pc
       ELSE /\ pc' = "w_update"
            /\ UNCHANGED <<head, chron, calls, wst, kst>>
    /\ UNCHANGED <<mem, kregs, sig, tables, op, idx, status, count, ret, ctl, firstWord, edited, resumed>>

\* the GETREGS loop, the "Restore any software breakpoint" loop and the return
wait_update ==
    /\ UNCHANGED <<budget, lastreg>>
    /\ pc = "w_update"
    /\ t_HEAD' = [i \in 1..Len(t_HEAD) |->
                    IF InPtraceStop(t_HEAD[i].tid)
                    THEN [t_HEAD[i] EXCEPT !.regs = kregs[t_HEAD[i].tid]]
                    ELSE t_HEAD[i]]
    /\ mem' = DisarmFrom(mem, b_HEAD, 1)
    /\ calls' = calls \o [i \in 1..Len(t_HEAD) |-> Call("GetRegs", t_HEAD[i].tid, 0)]
                      \o PokeCalls(b_HEAD, FALSE)
    /\ ret' = 1
    /\ ctl' = "debugger"
    /\ pc' = "ret"
    /\ UNCHANGED <<kst, kregs, wst, sig, b_HEAD, op, idx, head, status, count, history>>

----------------------------------------------------------------------------
Next ==
    \/ \E t \in Tids : ThreadRun(t)
    \/ \E t \in Tids : ThreadExit(t)
    \/ \E t \in Tids : register_thread(t)
    \/ \E t \in Tids : unregister_thread(t)
    \/ \E t \in Tids, a \in Addrs : EditRegs(t, a)
    \/ \E a \in BpAddrs : register_breakpoint(a)
    \/ \E a \in BpAddrs : unregister_breakpoint(a)
    \/ \E a \in BpAddrs : disable_breakpoint(a)
    \/ \E t \in Tids : singlestep(t)
    \/ \E t \in Tids, a \in Addrs, m \in MaxStepsArgs : step_until_flush(t, a, m)
    \/ step_until_step
    \/ step_until_wait
    \/ cont_flush
    \/ cont_step_off
    \/ cont_wait
    \/ cont_wait2
    \/ cont_arm
    \/ cont_continue
    \/ wait_primary
    \/ wait_probe
    \/ wait_tgkill
    \/ wait_stopped
    \/ wait_drain
    \/ wait_update
    \/ Return

Spec == Init /\ [][Next]_vars

\* the run/stop cycle alone, on a tracee of three threads
NextWait ==
    \/ \E t \in Tids : ThreadRun(t)
    \/ \E t \in Tids : ThreadExit(t)
    \/ \E t \in Tids : register_thread(t)
    \/ \E a \in BpAddrs : register_breakpoint(a)
    \/ cont_flush
    \/ cont_step_off
    \/ cont_wait
    \/ cont_wait2
    \/ cont_arm
    \/ cont_continue
    \/ wait_primary
    \/ wait_probe
    \/ wait_tgkill
    \/ wait_stopped
    \/ wait_drain
    \/ wait_update
    \/ Return

SpecWait == InitWait /\ [][NextWait]_vars

\* the breakpoint table alone, with addresses that PEEKDATA and POKEDATA reject
InitFault == InitWith(MainTids, MaxFaultCalls)

NextFault ==
    \/ \E a \in BpAddrs \cup BadAddrs : register_breakpoint(a)
    \/ \E a \in BpAddrs \cup BadAddrs : unregister_breakpoint(a)
    \/ \E a \in BpAddrs \cup BadAddrs : disable_breakpoint(a)

SpecFault == InitFault /\ [][NextFault]_vars

\* the run/stop cycle and step_until, with the scheduling step_until relies on:
\* the tracer keeps executing its loop, and the kernel runs a resumed thread
InitStep == InitWith(MainTids, MaxStepCalls)

NextStep ==
    \/ \E t \in Tids : ThreadRun(t)
    \/ \E t \in Tids : ThreadExit(t)
    \/ \E t \in Tids : register_thread(t)
    \/ \E a \in BpAddrs : register_breakpoint(a)
    \/ \E t \in Tids, a \in Addrs, m \in MaxStepsArgs : step_until_flush(t, a, m)
    \/ step_until_step
    \/ step_until_wait
    \/ cont_flush
    \/ cont_step_off
    \/ cont_wait
    \/ cont_wait2
    \/ cont_arm
    \/ cont_continue
    \/ wait_primary
    \/ wait_probe
    \/ wait_tgkill
    \/ wait_stopped
    \/ wait_drain
    \/ wait_update
    \/ Return

SpecStep ==
    /\ InitStep
    /\ [][NextStep]_vars
    /\ WF_vars(step_until_step)
    /\ WF_vars(step_until_wait)
    /\ \A t \in Tids : WF_vars(ThreadRun(t))

----------------------------------------------------------------------------
(* Properties.                                                             *)

\* the engine call of that name has just returned
Returned(name) == pc = "ret" /\ op.name = name
WaitReturnedList == Returned("wait_all_and_update_regs") /\ ret = 1

Records == Range(b_HEAD)

\* C1: after a wait_all_and_update_regs that returns a list, the memory word at
\* the address of every enabled record is its original word, and at the
\* address of every disabled record its patched word
C1_MemoryAtRest ==
    WaitReturnedList =>
        \A b \in Records :
            PEEKDATA(mem, b.addr) = IF b.enabled THEN b.instruction
                                    ELSE b.patched_instruction

\* C2: after a cont_all_and_set_bps, whatever it returns, the memory word at the
\* address of every enabled record is its patched word
C2_MemoryInFlight ==
    Returned("cont_all_and_set_bps") =>
        \A b \in Records : b.enabled => PEEKDATA(mem, b.addr) = b.patched_instruction

\* C3: while all threads are stopped and control is with the debugger, the
\* memory word at the address of every enabled record is its original word
C3_StoppedHasOriginal ==
    Stopped =>
        \A b \in Records : b.enabled => PEEKDATA(mem, b.addr) = b.instruction

\* C4: in every state the memory word at the address of every disabled record
\* is its original word
C4_DisabledHasOriginal ==
    \A b \in Records : ~b.enabled => PEEKDATA(mem, b.addr) = b.instruction

\* C5: the original word stored in a record is the word that was in memory at
\* its address before the first register_breakpoint of that address
C5_OriginalPreserved ==
    \A b \in Records : b.instruction = firstWord[b.addr]

\* C6: register_breakpoint of an address that has a record keeps that one
\* record with its stored words and sets it enabled, and the table never holds
\* two records of one address
C6_ReinstallKeepsRecord ==
    /\ \A i, j \in 1..Len(b_HEAD) : b_HEAD[i].addr = b_HEAD[j].addr => i = j
    /\ lastreg.had =>
          /\ Cardinality({i \in 1..Len(b_HEAD) : b_HEAD[i].addr = lastreg.addr}) = 1
          /\ BpAt(b_HEAD, lastreg.addr) = [lastreg.prev EXCEPT !.enabled = TRUE]

\* a disabled record was registered again while memory held another word than its original
C6_Witness ==
    /\ lastreg.had
    /\ ~lastreg.prev.enabled
    /\ lastreg.word # lastreg.prev.instruction
    /\ Len(b_HEAD) = 2

\* the calls of one verb on one thread among the first k calls
CallsOf(verb, tid, k) == {j \in 1..k : calls[j].verb = verb /\ calls[j].a = tid}
Resumes == {k \in 1..Len(calls) : calls[k].verb \in {"SingleStep", "Continue"}}

\* C7: an edit of the cached regs of a thread in the table is issued as a
\* SetRegs of that thread before the next SingleStep or Continue of any thread
C7_RegisterFlush ==
    \A k \in Resumes :
        \A t \in TableTids :
            edited[t] # NoEdit =>
                \E j \in 1..(k - 1) : calls[j] = Call("SetRegs", t, edited[t])

\* step_until has stepped its thread twice after an edit of another thread's
\* regs, and the kernel holds the edited instruction pointer
C7_Witness ==
    /\ pc = "ret"
    /\ op.name = "step_until"
    /\ Cardinality(CallsOf("SingleStep", op.tid, Len(calls))) = 2
    /\ \E t \in TableTids \ {op.tid} : edited[t] # NoEdit /\ kregs[t].ip = edited[t]

\* the cached instruction pointer of the thread record is the address of a record
OnBreakpoint(t) == \E b \in Records : b.addr = INSTRUCTION_POINTER(t.regs)
Pokes == {k \in 1..Len(calls) : calls[k].verb = "PokeData"}
InCont == op.name = "cont_all_and_set_bps"

\* C8: a thread on a breakpoint address gets exactly one SingleStep
\* before any PokeData of a patched word, a thread on none gets no SingleStep
C8_OneStepOff ==
    InCont =>
        \A t \in Range(t_HEAD) :
            /\ OnBreakpoint(t) =>
                  \A k \in Pokes : Cardinality(CallsOf("SingleStep", t.tid, k)) = 1
            /\ ~OnBreakpoint(t) => CallsOf("SingleStep", t.tid, Len(calls)) = {}

\* the wait status after the first SingleStep of the thread was stopped-by-SIGSTOP
FirstWaitWasSigstop(tid) ==
    /\ CallsOf("WaitPid", tid, Len(calls)) # {}
    /\ LET first == CHOOSE j \in CallsOf("WaitPid", tid, Len(calls)) :
                        \A i \in CallsOf("WaitPid", tid, Len(calls)) : j <= i
       IN  calls[first].b = SIGSTOP_STATUS

\* C8 with the second step: one SingleStep, and a second one exactly when the wait status
\* after the first is stopped-by-SIGSTOP (4991), before any PokeData of a
\* patched word; a thread on no breakpoint address gets no SingleStep
C8_StepOffBeforeArm ==
    InCont =>
        \A t \in Range(t_HEAD) :
            /\ OnBreakpoint(t) =>
                  \A k \in Pokes :
                      Cardinality(CallsOf("SingleStep", t.tid, k)) =
                          IF FirstWaitWasSigstop(t.tid) THEN 2 ELSE 1
            /\ ~OnBreakpoint(t) => CallsOf("SingleStep", t.tid, Len(calls)) = {}

\* cont_all_and_set_bps has returned after poking a patched word; a thread on a
\* breakpoint got status 4991 from its first wait, and another thread was on no breakpoint
C8_Witness ==
    /\ Returned("cont_all_and_set_bps")
    /\ Pokes # {}
    /\ \E t \in Range(t_HEAD) : OnBreakpoint(t) /\ FirstWaitWasSigstop(t.tid)
    /\ \E t \in Range(t_HEAD) : ~OnBreakpoint(t)

\* C9: when wait_all_and_update_regs returns a list, every live thread of the
\* thread table is in ptrace-stop
C9_AllStopped ==
    WaitReturnedList =>
        \A t \in TableTids : kst[t] \in {"stop", "dead", "gone"}

\* a thread stopped by itself between the probe and the SIGSTOP: its own stop
\* was collected by the targeted wait and the SIGSTOP is still pending on it
C9_Witness ==
    /\ WaitReturnedList
    /\ \E i \in 1..Len(head) :
          /\ head[i].status = SIGTRAP_STATUS
          /\ i < Len(head)
          /\ head[i].tid \in TableTids
          /\ sig[head[i].tid]
          /\ kst[head[i].tid] = "stop"

\* C10: the returned list is newest first: the primary event is its last
\* element, the events of the targeted waits come before it, the drained ones
\* before all of those, and a later-collected event precedes an earlier one
C10_NewestFirst ==
    WaitReturnedList =>
        LET n == Len(chron)
            When(i) == n + 1 - i      \* position in collection order of head[i]
        IN  /\ Len(head) = n
            /\ \A i \in 1..n : head[i] = chron[When(i)].ev
            /\ chron[When(n)].grp = 1
            /\ \A i \in 1..(n - 1) : chron[When(i)].grp \in {2, 3}
            /\ \A i, j \in 1..n : i < j => chron[When(i)].grp >= chron[When(j)].grp

\* a list that holds a drained event, the event of a targeted wait and the primary event
C10_Witness ==
    /\ WaitReturnedList
    /\ [i \in 1..Len(chron) |-> chron[i].grp] = <<1, 2, 3>>
    /\ Cardinality({head[i].tid : i \in 1..Len(head)}) = 3

\* the events in head that stand for a status a waitpid has returned
Reported == SelectSeq(head, LAMBDA e : e.tid # -1)
\* the statuses the waitpid calls of the call in progress have consumed, newest first
Consumed ==
    LET w == SelectSeq(calls, LAMBDA c : c.verb = "WaitPid" /\ c.a # -1)
    IN  [i \in 1..Len(w) |-> Event(w[Len(w) + 1 - i].a, w[Len(w) + 1 - i].b)]

\* C11: every wait status consumed inside wait_all_and_update_regs is in the
\* returned list exactly once, no thread of the table has an unreported wait
\* status when the list is returned, and after a cont_all_and_set_bps that has
\* resumed every thread of the table, all of them still alive, the list holds
\* one entry per thread
C11_NoEventLost ==
    WaitReturnedList =>
        /\ Reported = Consumed
        /\ \A t \in TableTids : ~Waitable(t)
        /\ (TableTids # {} /\ resumed = TableTids /\ \A t \in TableTids : InPtraceStop(t)) =>
              /\ Len(head) = Cardinality(TableTids)
              /\ {head[i].tid : i \in 1..Len(head)} = TableTids

\* three resumed threads: one has hit a breakpoint, the two others were
\* running and were stopped by the targeted SIGSTOP
C11_Witness ==
    /\ WaitReturnedList
    /\ resumed = TableTids
    /\ Cardinality(TableTids) = 3
    /\ [i \in 1..Len(head) |-> head[i].status] = <<SIGSTOP_STATUS, SIGSTOP_STATUS, SIGTRAP_STATUS>>
    /\ [i \in 1..Len(chron) |-> chron[i].grp] = <<1, 2, 2>>

\* the instruction pointers step_until has seen: the one it flushed, then the
\* one each GETREGS after a step has read
SeenIps ==
    LET f == SelectSeq(calls, LAMBDA c : c.verb = "SetRegs" /\ c.a = op.tid)
        g == SelectSeq(calls, LAMBDA c : c.verb = "GetRegs" /\ c.a = op.tid)
    IN  [i \in 1..(Len(f) + Len(g)) |-> IF i <= Len(f) THEN f[i].b ELSE g[i - Len(f)].b]
\* the steps after which the instruction pointer differed from the one before
Moves == Cardinality({i \in 2..Len(SeenIps) : SeenIps[i] # SeenIps[i - 1]})
\* a step has brought the instruction pointer to addr
Reached == Len(SeenIps) > 1 /\ SeenIps[Len(SeenIps)] = op.addr
\* tid is not in the thread table, or the latest SINGLESTEP has failed
StepFailed ==
    \/ op.tid \notin TableTids
    \/ Len(calls) > 0 /\ calls[Len(calls)].verb = "SingleStep"
InStepUntil == op.name = "step_until" /\ pc \in {"s_loop", "ret"}

C13_NegativeIsUnbounded ==
    (Returned("step_until") /\ op.max < 0) => (Reached \/ StepFailed)

\* the latest call was a register_breakpoint whose PEEKDATA and POKEDATA failed
InstallFailed == lastreg.addr # -1 /\ ~Mapped(lastreg.addr)

\* C14: a register_breakpoint that fails leaves the breakpoint table as it
\* was: it creates no record and changes no record's enabled flag
C14_FailedInstallKeepsTable ==
    InstallFailed =>
        IF lastreg.had
        THEN BpAt(b_HEAD, lastreg.addr) = lastreg.prev
        ELSE ~HasBp(b_HEAD, lastreg.addr)

\* an engine call has handed control back with the threads stopped
HandedBackStopped ==
    /\ pc = "ret"
    /\ ctl = "debugger"
    /\ \/ op.name = "wait_all_and_update_regs" /\ ret = 1
       \/ op.name = "step_until"
       \/ op.name = "cont_all_and_set_bps" /\ ret = -1

\* C15: when an engine call hands control back with the threads stopped, the
\* cached regs of every live thread of the table are the kernel's registers
\* of that thread
C15_CacheIsCurrent ==
    HandedBackStopped =>
        \A i \in 1..Len(t_HEAD) :
            InPtraceStop(t_HEAD[i].tid) => t_HEAD[i].regs = kregs[t_HEAD[i].tid]

\* C16: when cont_all_and_set_bps has single-stepped a thread off a breakpoint
\* address, the trap byte is not in tracee memory at that address
C16_StepOffSeesOriginal ==
    (InCont /\ pc = "c_wait") => mem[INSTRUCTION_POINTER(Cursor.regs)] # TrapByte

\* positions in calls of the calls of one verb
At(verb) == {k \in 1..Len(calls) : calls[k].verb = verb}
Before(S, T) == \A i \in S : \A j \in T : i < j

\* C17: inside cont_all_and_set_bps every SetRegs comes before every
\* SingleStep, every SingleStep and WaitPid before every PokeData, and every
\* PokeData before every Continue
C17_PhaseOrder ==
    InCont =>
        /\ Before(At("SetRegs"), At("SingleStep") \cup At("WaitPid"))
        /\ Before(At("SetRegs") \cup At("SingleStep") \cup At("WaitPid"), At("PokeData"))
        /\ Before(At("SetRegs") \cup At("SingleStep") \cup At("WaitPid") \cup At("PokeData"),
                  At("Continue"))

\* a cont_all_and_set_bps that has issued calls of all five kinds, for two threads
C17_Witness ==
    /\ Returned("cont_all_and_set_bps")
    /\ Cardinality(At("SetRegs")) = 2
    /\ Cardinality(At("SingleStep")) >= 2
    /\ Cardinality(At("WaitPid")) >= 2
    /\ Cardinality(At("PokeData")) = 2
    /\ Cardinality(At("Continue")) = 2

\* C18: when the step-off loop of cont_all_and_set_bps is over and no
\* breakpoint is armed yet, every thread that was on a breakpoint address has
\* executed one instruction: its kernel instruction pointer is the next address
C18_SteppedOffBeforeArm ==
    (InCont /\ pc = "c_arm") =>
        \A t \in Range(t_HEAD) :
            OnBreakpoint(t) =>
                /\ kst[t.tid] \in {"stop", "gone"}
                /\ kregs[t.tid].ip = NextIp(INSTRUCTION_POINTER(t.regs))

\* the step-off loop is over for a thread whose first wait returned 4991 and
\* that was stepped a second time
C18_Witness ==
    /\ InCont
    /\ pc = "c_arm"
    /\ \E t \in Range(t_HEAD) :
          /\ OnBreakpoint(t)
          /\ FirstWaitWasSigstop(t.tid)
          /\ Cardinality(CallsOf("SingleStep", t.tid, Len(calls))) = 2
          /\ Cardinality(CallsOf("WaitPid", t.tid, Len(calls))) = 2

\* step_until is inside its loop, with a bound on the steps
InBoundedLoop == op.name = "step_until" /\ op.max >= 0 /\ pc \in {"s_loop", "s_wait"}

\* C19: with max_steps >= 0 step_until on a thread of the table returns, and
\* at most max_steps of its steps have changed the instruction pointer
C19_StepUntilReturns ==
    /\ InBoundedLoop ~> pc = "ret"
    /\ []((InStepUntil /\ op.max >= 0 /\ op.tid \in TableTids) => Moves <= op.max)

\* step_until has returned after max_steps = 2 steps that changed the
\* instruction pointer, short of addr
C19_Witness ==
    /\ Returned("step_until")
    /\ op.max = 2
    /\ ~Reached
    /\ ~StepFailed
    /\ Moves = 2

\* C20: every event collected by the targeted waitpid that follows the tgkill
\* is the SIGSTOP stop of that thread, and no SIGSTOP is pending on any thread
\* when wait_all_and_update_regs returns
C20_TargetedWaitIsSigstop ==
    WaitReturnedList =>
        /\ \A i \in 1..Len(chron) :
              chron[i].grp = 2 =>
                  /\ chron[i].ev.status = SIGSTOP_STATUS
                  /\ chron[i].ev.tid \in TableTids
        /\ \A t \in Tids : ~sig[t]

====
